---- MODULE Spec2Model ----
(***************************************************************************)
(* Model of ipv8/lazy_community.py (the lazy dispatch wrappers and the     *)
(* EZPackOverlay packet codec) and of ipv8/attestation/identity_formats.py *)
(* (the FORMATS registry and IdentityAlgorithm.__init__).                  *)
(*                                                                         *)
(* A packet is a sequence of bytes, each in 0..255.  Signatures are        *)
(* unforgeable: the variable issued records the signature the sender's     *)
(* backend made, with the key and the message it was made for, and a       *)
(* signature verifies exactly when it is that signature, checked with that *)
(* key over that message.                                                  *)
(***************************************************************************)
EXTENDS Integers, Sequences, FiniteSets, TLC

VARIABLES
    pc,               \* "idle" | "packed" | "received"
    data,             \* the raw packet in flight
    sender,           \* how the packet in flight was packed
    issued,           \* the signature made for it: signer, message, signature
    tampered,         \* 0, or the index of the byte changed in flight
    op,               \* the receiving operation that ran last
    shapes,           \* the payload classes that operation declared
    source_address,   \* the address the packet was received from
    raised,           \* "" or the exception the operation ended with
    signature_valid,  \* "none" | "valid" | "invalid": _verify_signature's answer
    verify_backend,   \* "none" | "default" | "accelerated"
    remainder,        \* the remainder _verify_signature returned
    constructed,      \* payload objects deserialized by the operation
    handler_calls,    \* argument lists the wrapped handler was called with
    returned,         \* what _ez_unpack_auth / _ez_unpack_noauth returned
    instances,        \* IdentityAlgorithm objects handed to callers
    id_result         \* outcome of the last IdentityAlgorithm construction

packetVars == <<pc, data, sender, issued, tampered, op, shapes, source_address, raised,
                signature_valid, verify_backend, remainder, constructed,
                handler_calls, returned>>
idVars == <<instances, id_result>>
vars == <<packetVars, idVars>>

---------------------------------------------------------------------------
(* Bounds of the model. *)

\* largest number of payloads handed to ezr_pack / declared by a wrapper
MaxPayloads == 2
\* largest global time and longest binary field content
MaxVal == 1
\* longest public key of the default backend
MaxKeyLen == 2
\* most IdentityAlgorithm objects constructed
MaxInstances == 4

---------------------------------------------------------------------------
(* Bytes and Python slicing. *)

Min2(a, b) == IF a < b THEN a ELSE b
Max2(a, b) == IF a > b THEN a ELSE b

\* a slice index as Python clamps it: negative counts from the end
PyIndex(j, n) == IF j < 0 THEN Max2(n + j, 0) ELSE Min2(j, n)

\* s[lo:hi]
Slice(s, lo, hi) == SubSeq(s, PyIndex(lo, Len(s)) + 1, PyIndex(hi, Len(s)))

\* s[lo:]
SliceFrom(s, lo) == SubSeq(s, PyIndex(lo, Len(s)) + 1, Len(s))

\* s.startswith(p)
StartsWith(s, p) == Len(s) >= Len(p) /\ SubSeq(s, 1, Len(p)) = p

RECURSIVE Concat(_)
Concat(ss) == IF ss = <<>> THEN <<>> ELSE Head(ss) \o Concat(Tail(ss))

---------------------------------------------------------------------------
(* The wire serializer (ipv8.messaging.serialization, consumed only). *)

QLen == 8

Format(cls) == IF cls = "GlobalTimeDistributionPayload" THEN "Q" ELSE "varlenH"

RECURSIVE StripZeros(_)
StripZeros(s) ==
    IF s # <<>> /\ Head(s) = 0 THEN StripZeros(Tail(s)) ELSE s

\* struct format Q: 8 bytes big endian; a number is its base-256 digits
\* without leading zeros.  varlenH: 2 bytes big endian length, then the bytes.
pack_one(fmt, val) ==
    IF fmt = "Q"
    THEN [j \in 1..(QLen - Len(val)) |-> 0] \o val
    ELSE <<Len(val) \div 256, Len(val) % 256>> \o val

unpack_one(fmt, bytes) ==
    IF fmt = "Q"
    THEN IF Len(bytes) >= QLen
         THEN [ok |-> TRUE, val |-> StripZeros(SubSeq(bytes, 1, QLen)),
               rest |-> SliceFrom(bytes, QLen)]
         ELSE [ok |-> FALSE, val |-> <<>>, rest |-> bytes]
    ELSE IF Len(bytes) >= 2 /\ Len(bytes) >= 2 + 256 * bytes[1] + bytes[2]
         THEN LET n == 256 * bytes[1] + bytes[2]
              IN  [ok |-> TRUE, val |-> SubSeq(bytes, 3, 2 + n),
                   rest |-> SliceFrom(bytes, 2 + n)]
         ELSE [ok |-> FALSE, val |-> <<>>, rest |-> bytes]

Payload(cls, val) == [cls |-> cls, val |-> val]

BinMemberAuthenticationPayload(public_key_bin) ==
    Payload("BinMemberAuthenticationPayload", public_key_bin)

to_pack_list(payload) == <<<<Format(payload.cls), payload.val>>>>

\* pack_multiple(format_list)[0]
pack_multiple(format_list) ==
    Concat([j \in 1..Len(format_list) |->
                pack_one(format_list[j][1], format_list[j][2])])

\* objs are the objects deserialized until the end or the first failure
RECURSIVE unpack_to_serializables(_, _)
unpack_to_serializables(classes, bytes) ==
    IF classes = <<>>
    THEN [ok |-> TRUE, objs |-> <<>>, rest |-> bytes]
    ELSE LET u == unpack_one(Format(Head(classes)), bytes)
         IN  IF ~u.ok
             THEN [ok |-> FALSE, objs |-> <<>>, rest |-> bytes]
             ELSE LET r == unpack_to_serializables(Tail(classes), u.rest)
                  IN  [ok |-> r.ok,
                       objs |-> <<Payload(Head(classes), u.val)>> \o r.objs,
                       rest |-> r.rest]

\* fails as well when bytes are left over
ez_unpack_serializables(classes, bytes) ==
    LET u == unpack_to_serializables(classes, bytes)
    IN  [ok |-> u.ok /\ u.rest = <<>>, objs |-> u.objs]

---------------------------------------------------------------------------
(* Keys and the two signature backends (ipv8.keyvault and                  *)
(* rust_ipv8_in_python, consumed only).                                    *)

\* b"LibNaCLPK:"
Marker == <<76, 105, 98, 78, 97, 67, 76, 80, 75, 58>>

\* signature length of the accelerated backend (fixed)
NaclSigLen == 64

\* a key of the default backend whose public key has n bytes; its signature
\* length depends on the key
DefaultKey(n) ==
    [type |-> "M2CryptoSK",
     pub |-> [j \in 1..n |-> IF j = 1 THEN 48 ELSE 0],
     siglen |-> n + 1, seed |-> <<>>, vk |-> <<>>]

NaclKey ==
    [type |-> "LibNaCLSK", pub |-> Marker \o <<1>>, siglen |-> NaclSigLen,
     seed |-> <<7>>, vk |-> <<1>>]

Keys == {DefaultKey(n) : n \in 1..MaxKeyLen} \cup {NaclKey}

key_to_bin(key) == key.pub

\* the bytes of a signature of n bytes
SignatureBytes(n) == [j \in 1..n |-> 255 - j]

NoSignature == [k |-> <<>>, m |-> <<>>, s |-> <<>>]

create_signature(key, msg) == SignatureBytes(key.siglen)

key_from_public_bin(bin) ==
    IF \E key \in Keys : key.pub = bin
    THEN [ok |-> TRUE, key |-> CHOOSE key \in Keys : key.pub = bin]
    ELSE [ok |-> FALSE, key |-> NaclKey]

get_signature_length(public_key) == public_key.siglen

is_valid_signature(public_key, msg, signature) ==
    issued = [k |-> public_key.pub, m |-> msg, s |-> signature]

\* returns the packet with the signature appended
borrowed_create_signature(seed, key, packet) ==
    packet \o SignatureBytes(NaclSigLen)

\* returns (valid, remainder)
borrowed_verify_signature(public_key_bin, packet) ==
    [valid |-> issued = [k |-> public_key_bin,
                         m |-> Slice(packet, 0, 0 - NaclSigLen),
                         s |-> SliceFrom(packet, 0 - NaclSigLen)],
     remainder |-> Slice(packet, 23 + 2 + Len(public_key_bin), 0 - NaclSigLen)]

\* cast_to_bin(chr(msg_num))
cast_to_bin_chr(msg_num) == <<msg_num>>

Peer(public_key_bin, address) ==
    [cls |-> "Peer", public_key_bin |-> public_key_bin, address |-> address]

---------------------------------------------------------------------------
(* EZPackOverlay. *)

\* the overlay's prefix: 22 bytes, so that prefix + message id take 23
PrefixLen == 22
Prefix == [j \in 1..PrefixLen |-> 0]

\* faulty variant: the type test never matches, every key signs with the default backend
SignBackend_never_accelerated(key) == "default"

\* _ez_pack: the backend that signs, chosen by the type of the sender's key
SignBackend(key) ==
    IF key.type = "LibNaCLSK" THEN "accelerated" ELSE "default"

\* _verify_signature: the backend that verifies, chosen by the marker
VerifyBackend(public_key_bin) ==
    IF StartsWith(public_key_bin, Marker) THEN "accelerated" ELSE "default"

\* _ez_pack: the packet before it is signed
Unsigned(prefix, msg_num, format_list_list) ==
    prefix \o cast_to_bin_chr(msg_num)
      \o Concat([j \in 1..Len(format_list_list) |->
                     pack_multiple(format_list_list[j])])

_ez_pack(my_peer, prefix, msg_num, format_list_list, sig) ==
    LET packet == Unsigned(prefix, msg_num, format_list_list)
    IN  IF sig
        THEN IF SignBackend(my_peer.key) = "accelerated"
             THEN borrowed_create_signature(my_peer.key.seed, my_peer.key.vk, packet)
             ELSE packet \o create_signature(my_peer.key, packet)
        ELSE packet

\* faulty variant: each payload's pack list is put in front of the list instead of
\* at its end
ezr_format_list_list_prepended(my_peer, payloads, sig) ==
    [j \in 1..Len(payloads) |-> to_pack_list(payloads[Len(payloads) + 1 - j])]
    \o (IF sig
        THEN <<to_pack_list(BinMemberAuthenticationPayload(key_to_bin(my_peer.key)))>>
        ELSE <<>>)

\* the list of pack lists ezr_pack hands to _ez_pack
ezr_format_list_list(my_peer, payloads, sig) ==
    (IF sig
     THEN <<to_pack_list(BinMemberAuthenticationPayload(key_to_bin(my_peer.key)))>>
     ELSE <<>>)
    \o [j \in 1..Len(payloads) |-> to_pack_list(payloads[j])]

\* faulty variant: sig is not handed on, so _ez_pack uses its default sig=True
ezr_pack_sig_not_passed(my_peer, msg_num, payloads, sig) ==
    _ez_pack(my_peer, Prefix, msg_num, ezr_format_list_list(my_peer, payloads, sig), TRUE)

ezr_pack(my_peer, msg_num, payloads, sig) ==
    _ez_pack(my_peer, Prefix, msg_num, ezr_format_list_list(my_peer, payloads, sig), sig)

\* faulty variant: the default backend only checks that a signature of the right
\* length is there
_verify_signature_length_only(auth, packet) ==
    IF VerifyBackend(auth.val) = "accelerated"
    THEN LET r == borrowed_verify_signature(auth.val, packet)
         IN  [raised |-> "", valid |-> r.valid, remainder |-> r.remainder]
    ELSE LET loaded == key_from_public_bin(auth.val)
             public_key == loaded.key
             signature_length == get_signature_length(public_key)
             rem == Slice(packet, 23 + 2 + Len(auth.val), 0 - signature_length)
             signature == SliceFrom(packet, 0 - signature_length)
         IN  IF ~loaded.ok
             THEN [raised |-> "KeyDecodingError", valid |-> FALSE, remainder |-> <<>>]
             ELSE [raised |-> "",
                   valid |-> Len(signature) = signature_length,
                   remainder |-> rem]

\* faulty variant: the two length bytes of the public key are not skipped
_verify_signature_no_length_bytes(auth, packet) ==
    IF VerifyBackend(auth.val) = "accelerated"
    THEN LET r == borrowed_verify_signature(auth.val, packet)
         IN  [raised |-> "", valid |-> r.valid, remainder |-> r.remainder]
    ELSE LET loaded == key_from_public_bin(auth.val)
             public_key == loaded.key
             signature_length == get_signature_length(public_key)
             rem == Slice(packet, 23 + Len(auth.val), 0 - signature_length)
             signature == SliceFrom(packet, 0 - signature_length)
         IN  IF ~loaded.ok
             THEN [raised |-> "KeyDecodingError", valid |-> FALSE, remainder |-> <<>>]
             ELSE [raised |-> "",
                   valid |-> is_valid_signature(public_key,
                                 Slice(packet, 0, 0 - signature_length), signature),
                   remainder |-> rem]

\* returns (valid, remainder), or raises when the key does not load
_verify_signature(auth, packet) ==
    IF VerifyBackend(auth.val) = "accelerated"
    THEN LET r == borrowed_verify_signature(auth.val, packet)
         IN  [raised |-> "", valid |-> r.valid, remainder |-> r.remainder]
    ELSE LET loaded == key_from_public_bin(auth.val)
             public_key == loaded.key
             signature_length == get_signature_length(public_key)
             rem == Slice(packet, 23 + 2 + Len(auth.val), 0 - signature_length)
             signature == SliceFrom(packet, 0 - signature_length)
         IN  IF ~loaded.ok
             THEN [raised |-> "KeyDecodingError", valid |-> FALSE, remainder |-> <<>>]
             ELSE [raised |-> "",
                   valid |-> is_valid_signature(public_key,
                                 Slice(packet, 0, 0 - signature_length), signature),
                   remainder |-> rem]

---------------------------------------------------------------------------
(* The receiving operations.  Each returns what it did: the exception it   *)
(* ended with, the answer of _verify_signature, the payload objects it     *)
(* deserialized and the argument lists it called the handler with.         *)

NoResult ==
    [raised |-> "", valid |-> "none", backend |-> "none", remainder |-> <<>>,
     constructed |-> <<>>, calls |-> <<>>, returned |-> <<>>]

Validity(b) == IF b THEN "valid" ELSE "invalid"

\* faulty variant: the signature is verified but its validity is never looked at
lazy_wrapper_unchecked(payloads, address, packet) ==
    LET a == unpack_to_serializables(<<"BinMemberAuthenticationPayload">>,
                                     SliceFrom(packet, 23))
        auth == a.objs[1]
        v == _verify_signature(auth, packet)
        unpacked == ez_unpack_serializables(payloads, v.remainder)
        checked == [NoResult EXCEPT !.valid = Validity(v.valid),
                                    !.backend = VerifyBackend(auth.val),
                                    !.remainder = v.remainder,
                                    !.constructed = unpacked.objs]
    IN  IF ~a.ok THEN [NoResult EXCEPT !.raised = "PackError"]
        ELSE IF v.raised # ""
        THEN [NoResult EXCEPT !.raised = v.raised,
                              !.backend = VerifyBackend(auth.val)]
        ELSE IF ~unpacked.ok THEN [checked EXCEPT !.raised = "PackError"]
        ELSE [checked EXCEPT
                 !.calls = << <<Peer(auth.val, address)>> \o unpacked.objs >>]

lazy_wrapper(payloads, address, packet) ==
    LET a == unpack_to_serializables(<<"BinMemberAuthenticationPayload">>,
                                     SliceFrom(packet, 23))
        auth == a.objs[1]
        v == _verify_signature(auth, packet)
        unpacked == ez_unpack_serializables(payloads, v.remainder)
        checked == [NoResult EXCEPT !.valid = Validity(v.valid),
                                    !.backend = VerifyBackend(auth.val),
                                    !.remainder = v.remainder,
                                    !.constructed = unpacked.objs]
    IN  IF ~a.ok THEN [NoResult EXCEPT !.raised = "PackError"]
        ELSE IF v.raised # ""
        THEN [NoResult EXCEPT !.raised = v.raised,
                              !.backend = VerifyBackend(auth.val)]
        ELSE IF ~unpacked.ok THEN [checked EXCEPT !.raised = "PackError"]
        ELSE IF ~v.valid THEN [checked EXCEPT !.raised = "PacketDecodingError"]
        ELSE [checked EXCEPT
                 !.calls = << <<Peer(auth.val, address)>> \o unpacked.objs >>]

lazy_wrapper_wd(payloads, address, packet) ==
    LET a == unpack_to_serializables(<<"BinMemberAuthenticationPayload">>,
                                     SliceFrom(packet, 23))
        auth == a.objs[1]
        v == _verify_signature(auth, packet)
        unpacked == ez_unpack_serializables(payloads, v.remainder)
        checked == [NoResult EXCEPT !.valid = Validity(v.valid),
                                    !.backend = VerifyBackend(auth.val),
                                    !.remainder = v.remainder,
                                    !.constructed = unpacked.objs]
        output == unpacked.objs \o <<packet>>
    IN  IF ~a.ok THEN [NoResult EXCEPT !.raised = "PackError"]
        ELSE IF v.raised # ""
        THEN [NoResult EXCEPT !.raised = v.raised,
                              !.backend = VerifyBackend(auth.val)]
        ELSE IF ~unpacked.ok THEN [checked EXCEPT !.raised = "PackError"]
        ELSE IF ~v.valid THEN [checked EXCEPT !.raised = "PacketDecodingError"]
        ELSE [checked EXCEPT
                 !.calls = << <<Peer(auth.val, address)>> \o output >>]

lazy_wrapper_unsigned(payloads, address, packet) ==
    LET unpacked == ez_unpack_serializables(payloads, SliceFrom(packet, 23))
    IN  IF ~unpacked.ok
        THEN [NoResult EXCEPT !.raised = "PackError",
                              !.constructed = unpacked.objs]
        ELSE [NoResult EXCEPT !.constructed = unpacked.objs,
                              !.calls = << <<address>> \o unpacked.objs >>]

\* faulty variant: the handler gets what the inner wrapper decoded, without the packet
lazy_wrapper_unsigned_wd_no_data(payloads, address, packet) ==
    lazy_wrapper_unsigned(payloads, address, packet)

\* the inner wrapper is lazy_wrapper_unsigned around a handler that appends
\* the raw packet to what it is called with
lazy_wrapper_unsigned_wd(payloads, address, packet) ==
    LET inner == lazy_wrapper_unsigned(payloads, address, packet)
    IN  [inner EXCEPT
            !.calls = [j \in 1..Len(inner.calls) |-> inner.calls[j] \o <<packet>>]]

_ez_unpack_auth(payload_class, packet) ==
    LET a == unpack_to_serializables(<<"BinMemberAuthenticationPayload">>,
                                     SliceFrom(packet, 23))
        auth == a.objs[1]
        v == _verify_signature(auth, packet)
        format == <<"GlobalTimeDistributionPayload", payload_class>>
        unpacked == ez_unpack_serializables(format, v.remainder)
        checked == [NoResult EXCEPT !.valid = Validity(v.valid),
                                    !.backend = VerifyBackend(auth.val),
                                    !.remainder = v.remainder,
                                    !.constructed = unpacked.objs]
    IN  IF ~a.ok THEN [NoResult EXCEPT !.raised = "PackError"]
        ELSE IF v.raised # ""
        THEN [NoResult EXCEPT !.raised = v.raised,
                              !.backend = VerifyBackend(auth.val)]
        ELSE IF ~unpacked.ok THEN [checked EXCEPT !.raised = "PackError"]
        ELSE IF ~v.valid THEN [checked EXCEPT !.raised = "PacketDecodingError"]
        ELSE [checked EXCEPT
                 !.returned = <<auth, unpacked.objs[1], unpacked.objs[2]>>]

---------------------------------------------------------------------------
(* identity_formats.py *)

FORMATS == {"id_metadata", "id_metadata_big", "id_metadata_huge"}

\* faulty variant: the format name is stored and never looked up
IdentityAlgorithm_unchecked(id_format) ==
    [self |-> [id_format |-> id_format], raised |-> ""]

\* IdentityAlgorithm.__init__: the object as __init__ leaves it, and whether
\* __init__ raised
IdentityAlgorithm(id_format) ==
    [self |-> [id_format |-> id_format],
     raised |-> IF id_format \notin FORMATS THEN "RuntimeError" ELSE ""]

---------------------------------------------------------------------------
(* Inputs. *)

PayloadClasses == {"GlobalTimeDistributionPayload", "BinPayload"}

GlobalTimes == {IF g = 0 THEN <<>> ELSE <<g>> : g \in 0..MaxVal}

BinValues == {[j \in 1..n |-> 1] : n \in 0..MaxVal}

PayloadValues ==
    {Payload("GlobalTimeDistributionPayload", g) : g \in GlobalTimes}
    \cup {Payload("BinPayload", b) : b \in BinValues}

SeqsUpTo(S, n) == UNION {[1..l -> S] : l \in 0..n}

PayloadLists == SeqsUpTo(PayloadValues, MaxPayloads)

MsgNums == {1}

Addresses == {"10.0.0.1", "10.0.0.2"}

\* what an in-flight change adds to a byte, modulo 256
Deltas == {1, 255}

FormatNames == FORMATS \cup {"id_metadata_small", "bonehexact", ""}

Classes(payloads) == [j \in 1..Len(payloads) |-> payloads[j].cls]

---------------------------------------------------------------------------
(* The state machine. *)

NoSender ==
    [by |-> "none", key |-> NaclKey, msg_num |-> 0, payloads |-> <<>>,
     with_auth |-> FALSE, sig |-> FALSE, backend |-> "none"]

Init ==
    /\ pc = "idle"
    /\ data = <<>>
    /\ sender = NoSender
    /\ issued = NoSignature
    /\ tampered = 0
    /\ op = "none"
    /\ shapes = <<>>
    /\ source_address = ""
    /\ raised = ""
    /\ signature_valid = "none"
    /\ verify_backend = "none"
    /\ remainder = <<>>
    /\ constructed = <<>>
    /\ handler_calls = <<>>
    /\ returned = <<>>
    /\ instances = <<>>
    /\ id_result = [called |-> FALSE, id_format |-> "", raised |-> ""]

Sent(packet, how, message) ==
    /\ pc' = "packed"
    /\ data' = packet
    /\ sender' = how
    /\ issued' = IF how.sig
                 THEN [k |-> key_to_bin(how.key), m |-> message,
                       s |-> SignatureBytes(how.key.siglen)]
                 ELSE NoSignature
    /\ tampered' = 0
    /\ op' = "none"
    /\ shapes' = <<>>
    /\ source_address' = ""
    /\ raised' = ""
    /\ signature_valid' = "none"
    /\ verify_backend' = "none"
    /\ remainder' = <<>>
    /\ constructed' = <<>>
    /\ handler_calls' = <<>>
    /\ returned' = <<>>
    /\ UNCHANGED idVars

\* a caller packs payloads with ezr_pack; the message signed is the packet
\* _ez_pack has assembled from what ezr_pack hands it
EzrPack ==
    /\ pc = "idle"
    /\ \E key \in Keys, msg_num \in MsgNums, payloads \in PayloadLists, sig \in BOOLEAN :
        LET my_peer == [key |-> key]
        IN  Sent(ezr_pack(my_peer, msg_num, payloads, sig),
                 [by |-> "ezr_pack", key |-> key, msg_num |-> msg_num,
                  payloads |-> payloads, with_auth |-> FALSE, sig |-> sig,
                  backend |-> IF sig THEN SignBackend(key) ELSE "none"],
                 Unsigned(Prefix, msg_num,
                          ezr_format_list_list(my_peer, payloads, sig)))

\* a caller hands its own groups to _ez_pack, with or without an auth header
\* of its own making as the first group
EzPack ==
    /\ pc = "idle"
    /\ \E key \in Keys, msg_num \in MsgNums, payloads \in PayloadLists,
          with_auth \in BOOLEAN, sig \in BOOLEAN :
        LET my_peer == [key |-> key]
            groups == (IF with_auth
                       THEN <<BinMemberAuthenticationPayload(key_to_bin(key))>>
                       ELSE <<>>) \o payloads
            format_list_list == [j \in 1..Len(groups) |-> to_pack_list(groups[j])]
        IN  Sent(_ez_pack(my_peer, Prefix, msg_num, format_list_list, sig),
                 [by |-> "_ez_pack", key |-> key, msg_num |-> msg_num,
                  payloads |-> payloads, with_auth |-> with_auth, sig |-> sig,
                  backend |-> IF sig THEN SignBackend(key) ELSE "none"],
                 Unsigned(Prefix, msg_num, format_list_list))

\* one byte of a signed packet changes in flight
Tamper ==
    /\ pc = "packed"
    /\ tampered = 0
    /\ sender.by = "ezr_pack"
    /\ sender.sig
    /\ \E idx \in 1..Len(data), d \in Deltas :
          /\ data' = [data EXCEPT ![idx] = (data[idx] + d) % 256]
          /\ tampered' = idx
    /\ UNCHANGED <<pc, sender, issued, op, shapes, source_address, raised, signature_valid,
                   verify_backend, remainder, constructed, handler_calls, returned>>
    /\ UNCHANGED idVars

Received(name, classes, address, r) ==
    /\ pc' = "received"
    /\ op' = name
    /\ shapes' = classes
    /\ source_address' = address
    /\ raised' = r.raised
    /\ signature_valid' = r.valid
    /\ verify_backend' = r.backend
    /\ remainder' = r.remainder
    /\ constructed' = r.constructed
    /\ handler_calls' = r.calls
    /\ returned' = r.returned
    /\ UNCHANGED <<data, sender, issued, tampered>>
    /\ UNCHANGED idVars

\* the handler registered for the message declares the classes it was sent with
Declared == Classes(sender.payloads)

RecvLazyWrapper ==
    /\ pc = "packed"
    /\ \E address \in Addresses :
          Received("lazy_wrapper", Declared, address,
                   lazy_wrapper(Declared, address, data))

RecvLazyWrapperWd ==
    /\ pc = "packed"
    /\ \E address \in Addresses :
          Received("lazy_wrapper_wd", Declared, address,
                   lazy_wrapper_wd(Declared, address, data))

RecvLazyWrapperUnsigned ==
    /\ pc = "packed"
    /\ \E address \in Addresses :
          Received("lazy_wrapper_unsigned", Declared, address,
                   lazy_wrapper_unsigned(Declared, address, data))

RecvLazyWrapperUnsignedWd ==
    /\ pc = "packed"
    /\ \E address \in Addresses :
          Received("lazy_wrapper_unsigned_wd", Declared, address,
                   lazy_wrapper_unsigned_wd(Declared, address, data))

RecvEzUnpackAuth ==
    /\ pc = "packed"
    /\ \E payload_class \in PayloadClasses :
          Received("_ez_unpack_auth",
                   <<"GlobalTimeDistributionPayload", payload_class>>, "",
                   _ez_unpack_auth(payload_class, data))

\* the operation has ended; the overlay waits for the next packet
Done ==
    /\ pc = "received"
    /\ pc' = "idle"
    /\ data' = <<>>
    /\ sender' = NoSender
    /\ issued' = NoSignature
    /\ tampered' = 0
    /\ op' = "none"
    /\ shapes' = <<>>
    /\ source_address' = ""
    /\ raised' = ""
    /\ signature_valid' = "none"
    /\ verify_backend' = "none"
    /\ remainder' = <<>>
    /\ constructed' = <<>>
    /\ handler_calls' = <<>>
    /\ returned' = <<>>
    /\ UNCHANGED idVars

Next ==
    \/ EzrPack
    \/ EzPack
    \/ Tamper
    \/ RecvLazyWrapper
    \/ RecvLazyWrapperWd
    \/ RecvLazyWrapperUnsigned
    \/ RecvLazyWrapperUnsignedWd
    \/ RecvEzUnpackAuth
    \/ Done

Spec == Init /\ [][Next]_vars

\* a caller constructs an IdentityAlgorithm; it obtains the object only when
\* __init__ returns
Construct ==
    /\ Len(instances) < MaxInstances
    /\ \E id_format \in FormatNames :
          LET made == IdentityAlgorithm(id_format)
          IN  /\ id_result' = [called |-> TRUE, id_format |-> id_format,
                                raised |-> made.raised]
              /\ instances' = IF made.raised = ""
                              THEN Append(instances, made.self)
                              ELSE instances
    /\ UNCHANGED packetVars

\* a caller drops the objects it holds
Release ==
    /\ instances # <<>>
    /\ instances' = <<>>
    /\ UNCHANGED <<id_result, packetVars>>

NextId == Construct \/ Release

SpecId == Init /\ [][NextId]_vars

---------------------------------------------------------------------------
(* Vocabulary of the properties. *)

AuthWrappers == {"lazy_wrapper", "lazy_wrapper_wd"}
UnsignedWrappers == {"lazy_wrapper_unsigned", "lazy_wrapper_unsigned_wd"}
AuthOps == AuthWrappers \cup {"_ez_unpack_auth"}

\* the auth header at the front of the packet in flight, as a receiver reads it
AuthRead ==
    unpack_to_serializables(<<"BinMemberAuthenticationPayload">>, SliceFrom(data, 23))

\* the bytes ezr_pack's caller asked to have packed
PayloadBlocks ==
    Concat([j \in 1..Len(sender.payloads) |->
                pack_multiple(to_pack_list(sender.payloads[j]))])

\* the serialized auth header of the sender
SenderAuthBlock ==
    pack_multiple(to_pack_list(BinMemberAuthenticationPayload(key_to_bin(sender.key))))

\* a packet signed by ezr_pack and not changed since
Genuine ==
    /\ pc # "idle"
    /\ sender.by = "ezr_pack"
    /\ sender.sig
    /\ tampered = 0

---------------------------------------------------------------------------
(* C1: whenever lazy_wrapper or lazy_wrapper_wd has called the handler,    *)
(* _verify_signature reported the packet's signature valid; whenever it    *)
(* reported the signature invalid, the handler was called zero times.      *)
C1_HandlerOnlyAfterValidSignature ==
    (pc = "received" /\ op \in AuthWrappers) =>
        /\ handler_calls # <<>> =>
              /\ AuthRead.ok
              /\ _verify_signature(AuthRead.objs[1], data).raised = ""
              /\ _verify_signature(AuthRead.objs[1], data).valid
              /\ signature_valid = "valid"
        /\ signature_valid = "invalid" => handler_calls = <<>>

\* a changed packet reached lazy_wrapper, which refused it
C1_Witness ==
    /\ pc = "received"
    /\ op = "lazy_wrapper"
    /\ tampered > 0
    /\ signature_valid = "invalid"
    /\ raised = "PacketDecodingError"
    /\ handler_calls = <<>>

(* C2: whenever the signature of the packet is invalid, the authenticated  *)
(* unpack paths end with PacketDecodingError, whatever the packet holds.   *)
C2_InvalidSignatureRaisesPacketDecodingError ==
    (pc = "received" /\ op \in AuthOps /\ signature_valid = "invalid") =>
        raised = "PacketDecodingError"

(* C3: no payload object is deserialized from a packet whose signature is  *)
(* invalid: deserialization comes strictly after a successful check.       *)
C3_NoPayloadFromUnverifiedBytes ==
    (pc = "received" /\ op \in AuthOps /\ signature_valid = "invalid") =>
        constructed = <<>>

\* the payloads an authenticated operation handed on, and the signer it named
Decoded ==
    IF op = "_ez_unpack_auth"
    THEN SubSeq(returned, 2, Len(returned))
    ELSE SubSeq(handler_calls[1], 2, 1 + Len(shapes))

Signer ==
    IF op = "_ez_unpack_auth"
    THEN returned[1].val
    ELSE handler_calls[1][1].public_key_bin

(* C4: a packet made by ezr_pack with sig=True, decoded by an              *)
(* authenticated operation that declares the classes of the packed         *)
(* payloads, is accepted as validly signed and yields the packed payloads  *)
(* in the same order and the sender's public key as the signer.            *)
C4_RoundTrip ==
    (Genuine /\ pc = "received" /\ op \in AuthOps
        /\ shapes = Classes(sender.payloads)) =>
        /\ raised = ""
        /\ signature_valid = "valid"
        /\ op = "_ez_unpack_auth" => Len(returned) = 3
        /\ op # "_ez_unpack_auth" => Len(handler_calls) = 1
        /\ Decoded = sender.payloads
        /\ Signer = key_to_bin(sender.key)

\* two payloads with content went through _ez_unpack_auth under the
\* accelerated key
C4_Witness ==
    /\ Genuine
    /\ pc = "received"
    /\ op = "_ez_unpack_auth"
    /\ sender.key.type = "LibNaCLSK"
    /\ Len(sender.payloads) = 2
    /\ sender.payloads[1].val # <<>>
    /\ sender.payloads[2].val # <<>>
    /\ raised = ""
    /\ Decoded = sender.payloads

\* where the payload blocks of the sender's packet start (0-based offset)
PayloadStart == 23 + 2 + Len(key_to_bin(sender.key))

(* C5: after any one byte of the payload region or of the signature region *)
(* of a signed packet has changed, _verify_signature reports the signature *)
(* invalid; the signed bytes and the signature bytes together are the      *)
(* whole packet.                                                           *)
C5_TamperDetected ==
    (pc # "idle" /\ sender.by = "ezr_pack" /\ sender.sig) =>
        /\ Slice(data, 0, 0 - sender.key.siglen)
             \o SliceFrom(data, 0 - sender.key.siglen) = data
        /\ tampered > PayloadStart =>
              /\ AuthRead.ok
              /\ AuthRead.objs[1].val = key_to_bin(sender.key)
              /\ _verify_signature(AuthRead.objs[1], data).raised = ""
              /\ ~_verify_signature(AuthRead.objs[1], data).valid

\* a byte of the payload blocks changed, and the change was noticed
C5_Witness ==
    /\ sender.by = "ezr_pack"
    /\ sender.sig
    /\ tampered > PayloadStart
    /\ tampered <= Len(data) - sender.key.siglen
    /\ pc = "received"
    /\ op \in AuthOps
    /\ signature_valid = "invalid"

(* C6: the sender signs with the accelerated backend exactly when its key  *)
(* is a LibNaCLSK, the verifier verifies with the accelerated backend      *)
(* exactly when the public key starts with the marker, the two agree on    *)
(* every packet ezr_pack signed, and no packet is reported valid by a      *)
(* backend other than the one that signed it.                              *)
C6_BackendSelection ==
    /\ (pc # "idle" /\ sender.sig) =>
          /\ sender.backend \in {"accelerated", "default"}
          /\ sender.backend = "accelerated" <=> sender.key.type = "LibNaCLSK"
    /\ (pc = "received" /\ op \in AuthOps /\ verify_backend # "none") =>
          /\ AuthRead.ok
          /\ verify_backend = "accelerated" <=> StartsWith(AuthRead.objs[1].val, Marker)
    /\ (Genuine /\ pc = "received" /\ op \in AuthOps) =>
          verify_backend = sender.backend
    /\ (pc = "received" /\ op \in AuthOps /\ signature_valid = "valid") =>
          verify_backend = sender.backend

\* both backends have verified a packet they signed
C6_Witness ==
    /\ Genuine
    /\ pc = "received"
    /\ op \in AuthOps
    /\ sender.backend = "default"
    /\ verify_backend = "default"
    /\ signature_valid = "valid"

\* what the packet in flight carries
CarriesAuthHeader == StartsWith(SliceFrom(data, 23), SenderAuthBlock)

CarriesSignature ==
    /\ issued # NoSignature
    /\ data = issued.m \o issued.s

(* C7 as claimed: every packet ezr_pack or _ez_pack produces, whatever its *)
(* arguments, carries the sender's auth header first when it carries a     *)
(* signature, and carries neither when packed with sig=False.              *)
C7_SignedImpliesAuthHeader ==
    (pc = "packed" /\ tampered = 0) =>
        /\ CarriesSignature => CarriesAuthHeader
        /\ ~sender.sig => (~CarriesAuthHeader /\ ~CarriesSignature)

(* C7 amended: every packet ezr_pack produces carries a signature exactly  *)
(* when sig is set, and then carries the sender's auth header directly     *)
(* after prefix and message id; with sig=False it is prefix, message id    *)
(* and the caller's payload blocks, with no auth header and no signature   *)
(* added.  _ez_pack signs whatever groups it is handed.                    *)
C7_EzrPackSignedImpliesAuthHeader ==
    (pc = "packed" /\ tampered = 0 /\ sender.by = "ezr_pack") =>
        /\ sender.sig <=> CarriesSignature
        /\ sender.sig =>
              /\ CarriesAuthHeader
              /\ SubSeq(data, 1, 23) = Prefix \o <<sender.msg_num>>
        /\ ~sender.sig =>
              /\ ~CarriesAuthHeader
              /\ data = Prefix \o <<sender.msg_num>> \o PayloadBlocks

\* ezr_pack signed a packet that has payloads
C7_Witness ==
    /\ pc = "packed"
    /\ tampered = 0
    /\ sender.by = "ezr_pack"
    /\ sender.sig
    /\ Len(sender.payloads) = 2
    /\ CarriesSignature
    /\ CarriesAuthHeader

\* the bytes a wrapper deserializes the declared classes from
PayloadRegion ==
    IF op \in AuthWrappers
    THEN _verify_signature(AuthRead.objs[1], data).remainder
    ELSE SliceFrom(data, 23)

C9_OnlyRegisteredFormats ==
    /\ id_result.called =>
          (id_result.raised = "" <=>
              id_result.id_format \in {"id_metadata", "id_metadata_big", "id_metadata_huge"})
    /\ \A j \in 1..Len(instances) :
          instances[j].id_format \in {"id_metadata", "id_metadata_big", "id_metadata_huge"}

\* a construction with an unregistered name failed after others succeeded
C9_Witness ==
    /\ id_result.called
    /\ id_result.raised = "RuntimeError"
    /\ id_result.id_format \notin FORMATS
    /\ Len(instances) >= 2

(* C10: for a packet signed by ezr_pack with the default backend, the      *)
(* remainder _verify_signature returns is exactly the payload blocks: the  *)
(* bytes from offset 23 + 2 + len(public_key_bin), where pack ended the    *)
(* auth header, to signature_length bytes before the end; the signature    *)
(* was made over the bytes before it.                                      *)
C10_RemainderIsPayloadBlocks ==
    (Genuine /\ sender.backend = "default") =>
        LET auth == BinMemberAuthenticationPayload(key_to_bin(sender.key))
            v == _verify_signature(auth, data)
            start == 23 + 2 + Len(auth.val)
            signature_length == sender.key.siglen
        IN  /\ v.raised = ""
            /\ v.valid
            /\ v.remainder = PayloadBlocks
            /\ SubSeq(data, 1, start) = Prefix \o <<sender.msg_num>> \o SenderAuthBlock
            /\ data = SubSeq(data, 1, start) \o v.remainder
                        \o SliceFrom(data, 0 - signature_length)
            /\ issued.m = Slice(data, 0, 0 - signature_length)
            /\ (pc = "received" /\ op \in AuthOps) => remainder = PayloadBlocks

\* an authenticated operation got the two payload blocks of a packet signed
\* with the longest default key
C10_Witness ==
    /\ Genuine
    /\ sender.backend = "default"
    /\ Len(key_to_bin(sender.key)) = MaxKeyLen
    /\ pc = "received"
    /\ op \in AuthOps
    /\ Len(sender.payloads) = 2
    /\ remainder = PayloadBlocks
    /\ remainder # <<>>

====
